---------------------------- MODULE Spec2Model ----------------------------
(* PlaylistPorter: the checkpoint state machine (internal/state/state.go)   *)
(* and the batch workflow that drives it (internal/orchestrator).           *)
(*                                                                          *)
(* A track is represented by its source id; a playlist snapshot is a        *)
(* sequence of ids (the same id may occur more than once).  The candidate   *)
(* matched for track i is video i.  Timestamps are the logical clock `runs` *)
(* (the index of the invocation that sets them).                            *)
EXTENDS Integers, Sequences, FiniteSets, TLC

\* ------------------------------------------------------------------ bounds
MaxId == 2          \* track ids are 1..MaxId
MaxLen == 2         \* longest source playlist
MaxRuns == 2        \* invocations of the program in one behaviour
MaxEdits == 1       \* upstream edits of the source playlist
MaxBatch == 1       \* largest -max-tracks value tried
MaxResults == 2     \* longest MatchResults list built through the bare API
MaxStr == 2         \* byte length of the longer of two compared strings
MaxCands == 2       \* items in one search response
MaxSearched == 2    \* longest batch given to matchTracks on its own
MaxInput == 4       \* characters in a string given to the normaliser
MaxNew == 2         \* new tracks in the playlist a Complete record is synced with

Ids == 1..MaxId
Limits == 1..MaxBatch

Min(a, b) == IF a <= b THEN a ELSE b

Range(s) == {s[i] : i \in 1..Len(s)}

RECURSIVE SeqsUpTo(_, _)
SeqsUpTo(S, n) ==
    IF n = 0 THEN {<<>>}
    ELSE LET shorter == SeqsUpTo(S, n - 1)
         IN shorter \cup {Append(s, x) : s \in {t \in shorter : Len(t) = n - 1}, x \in S}

\* ids are interchangeable: a playlist is taken up to renaming of its ids, each
\* id first occurring after the first occurrences of all smaller ids
Canonical(s) ==
    \A i \in 1..Len(s) : \A j \in 1..(s[i] - 1) : \E h \in 1..(i - 1) : s[h] = j

Playlists == {s \in SeqsUpTo(Ids, MaxLen) : Canonical(s)}

\* ------------------------------------------------- files and state records
statePath == "state"

\* SaveState: tmpPath := statePath + ".tmp"
TmpPath_direct(p) == p
TmpPath(p) == "tmp"

Paths == {statePath, TmpPath(statePath)}

\* a path with no file, a file whose write was cut short, no state in memory
NoFile == [version |-> "none"]
Partial == [version |-> "partial"]
NoState == [version |-> "none"]

IsState(s) == s.version = "1.0"

\* a file that is not JSON, and a record of another schema version
Unparsable == [version |-> "unparsable"]
OtherVersion == [version |-> "0.9"]
Malformed == {Unparsable, OtherVersion}

\* models.MatchResult for track id, matched to video id or unmatched
Result(id, matched) == [id |-> id, matched |-> matched]

ResultIds(results) == {results[i].id : i \in 1..Len(results)}

\* ------------------------------------------------------ state.go operations
LoadState_noneOnError(file, readOk) ==
    IF file = NoFile \/ file \in Malformed THEN [state |-> NoState, err |-> FALSE]
    ELSE IF ~readOk THEN [state |-> NoState, err |-> TRUE]
    ELSE [state |-> file, err |-> FALSE]

\* LoadState: (nil, nil) without a file; an error if the file cannot be read
\* or parsed, or its version is not "1.0"; the state otherwise
LoadState(file, readOk) ==
    IF file = NoFile THEN [state |-> NoState, err |-> FALSE]
    ELSE IF ~readOk THEN [state |-> NoState, err |-> TRUE]
    ELSE IF file \in {Unparsable, Partial} THEN [state |-> NoState, err |-> TRUE]
    ELSE IF file.version # "1.0" THEN [state |-> NoState, err |-> TRUE]
    ELSE [state |-> file, err |-> FALSE]

CreateNewState(tracks, now) ==
    [version |-> "1.0", lastUpdatedAt |-> now,
     tracks |-> tracks, plTotal |-> Len(tracks),
     processedTracks |-> 0, totalTracks |-> Len(tracks), isComplete |-> FALSE,
     matchResults |-> <<>>, youTubePlaylistID |-> 0, sessions |-> <<>>,
     lastSyncCheck |-> 0, idsNil |-> FALSE, processedTrackIDs |-> {}]

\* a record written before the processed-id set existed: the first k tracks
\* have results, the set is absent (nil after unmarshalling)
LegacyState(tracks, k) ==
    [version |-> "1.0", lastUpdatedAt |-> 0,
     tracks |-> tracks, plTotal |-> Len(tracks),
     processedTracks |-> k, totalTracks |-> Len(tracks),
     isComplete |-> (k >= 1 /\ k >= Len(tracks)),
     matchResults |-> [i \in 1..k |-> Result(tracks[i], FALSE)],
     youTubePlaylistID |-> 0, sessions |-> <<>>,
     lastSyncCheck |-> 0, idsNil |-> TRUE, processedTrackIDs |-> {}]

\* the legacy records of a (non-empty) playlist
LegacyStates(tracks) ==
    IF tracks = <<>> THEN {} ELSE {LegacyState(tracks, k) : k \in 0..Len(tracks)}

Unprocessed(tracks, ids) == SelectSeq(tracks, LAMBDA t : t \notin ids)

GetUnprocessedTracks(s) ==
    IF ~s.idsNil THEN Unprocessed(s.tracks, s.processedTrackIDs)
    ELSE IF s.processedTracks >= Len(s.tracks) THEN <<>>
    ELSE SubSeq(s.tracks, s.processedTracks + 1, Len(s.tracks))

GetNextBatch_all(s, batchSize) == GetUnprocessedTracks(s)

GetNextBatch(s, batchSize) ==
    LET unprocessed == GetUnprocessedTracks(s)
    IN IF Len(unprocessed) <= batchSize THEN unprocessed
       ELSE SubSeq(unprocessed, 1, batchSize)

AddMatchResults_count(s, results) ==
    LET all == s.matchResults \o results
    IN [s EXCEPT !.matchResults = all,
                 !.processedTracks = s.processedTracks + 1,
                 !.idsNil = FALSE,
                 !.processedTrackIDs = s.processedTrackIDs \cup ResultIds(results),
                 !.isComplete = s.isComplete \/ (s.processedTracks + 1 >= s.totalTracks)]

AddMatchResults_early(s, results) ==
    LET all == s.matchResults \o results
    IN [s EXCEPT !.matchResults = all,
                 !.processedTracks = Len(all),
                 !.idsNil = FALSE,
                 !.processedTrackIDs = s.processedTrackIDs \cup ResultIds(results),
                 !.isComplete = s.isComplete \/ (Len(all) + 1 >= s.totalTracks)]

AddMatchResults(s, results) ==
    LET all == s.matchResults \o results
    IN [s EXCEPT !.matchResults = all,
                 !.processedTracks = Len(all),
                 !.idsNil = FALSE,
                 !.processedTrackIDs = s.processedTrackIDs \cup ResultIds(results),
                 !.isComplete = s.isComplete \/ (Len(all) >= s.totalTracks)]

Migrate_skip(s) == s

Migrate_empty(s) == [s EXCEPT !.idsNil = FALSE]

Migrate(s) ==
    IF s.idsNil
    THEN [s EXCEPT !.idsNil = FALSE, !.processedTrackIDs = ResultIds(s.matchResults)]
    ELSE s

NeedsMigration(s) == s.idsNil /\ Len(s.matchResults) > 0

\* DetectNewTracks initialises a missing processed-id set in place ...
DetectNewTracksState(s) == Migrate(s)

DetectNewTracks_unfiltered(s, current) == current

DetectNewTracks_byCount(s, current) ==
    SubSeq(current, s.processedTracks + 1, Len(current))

\* ... and returns the tracks of the current playlist that are not in it
DetectNewTracks(s, current) ==
    Unprocessed(current, DetectNewTracksState(s).processedTrackIDs)

UpdateForSync(s, current, now) ==
    [s EXCEPT !.plTotal = Len(current),
              !.totalTracks = Len(current),
              !.isComplete = IF s.processedTracks < Len(current) THEN FALSE
                             ELSE s.isComplete,
              !.lastSyncCheck = now]

GetProcessedTrackCount(s) ==
    IF s.idsNil THEN s.processedTracks ELSE Cardinality(s.processedTrackIDs)

StartNewSession(s) ==
    [s EXCEPT !.sessions = Append(s.sessions, [processed |-> 0, matched |-> 0])]

EndCurrentSession(s, tracksProcessed, tracksMatched) ==
    IF Len(s.sessions) = 0 THEN s
    ELSE [s EXCEPT !.sessions[Len(s.sessions)] =
                       [processed |-> tracksProcessed, matched |-> tracksMatched]]

SyncUpdate_keepSnapshot(s, current, now) == UpdateForSync(s, current, now)

\* orchestrator.go 141-144: UpdateForSync, then the snapshot is replaced
SyncUpdate(s, current, now) ==
    [UpdateForSync(s, current, now) EXCEPT !.tracks = current]

\* ------------------------------------------------------- SaveState's files
WriteFile(f, path, data) == [f EXCEPT ![path] = data]

Rename(f, from, to) ==
    IF from = to THEN f ELSE [f EXCEPT ![to] = f[from], ![from] = NoFile]

Remove(f, path) == [f EXCEPT ![path] = NoFile]

\* ------------------------------------------------- orchestrator: the steps
\* PortPlaylist steps 8-11: merge, target playlist, save, report
StepAfter_saveFirst(step) ==
    CASE step = "merge" -> "save"
      [] step = "save" -> "yt"
      [] step = "yt" -> "report"

StepAfter(step) ==
    CASE step = "merge" -> "yt"
      [] step = "yt" -> "save"
      [] step = "save" -> "report"

\* manageYouTubePlaylist: video ids of the matched results of the batch
NewVideoIDs(results) ==
    LET matched == SelectSeq(results, LAMBDA r : r.matched)
    IN [i \in 1..Len(matched) |-> matched[i].id]

MatchedCount(results) == Len(SelectSeq(results, LAMBDA r : r.matched))

\* matchTracks: one result per track, in order; outcome[i] is whether
\* SearchTrack found an acceptable candidate for the i-th track
MatchTracks(tracks, outcome) ==
    [i \in 1..Len(tracks) |-> Result(tracks[i], outcome[i])]

VARIABLES
    upstream,        \* the source playlist as the source catalog holds it
    edits,           \* upstream edits so far
    fs,              \* the state directory: path -> file content
    yt,              \* the target catalog: playlists created, items added
    runs,            \* invocations started so far (the logical clock)
    pc,              \* position of the running invocation in PortPlaylist
    syncMode,        \* Orchestrator.syncMode
    maxTracks,       \* Orchestrator.maxTracks
    mem,             \* portingState, the state in memory
    tracksToProcess, \* the batch
    newResults,      \* matchResults of the batch
    addIdx,          \* AddTracksToPlaylist: videos added so far
    saveRet,         \* where SaveState returns to
    diskAtStart,     \* history: checkpoint file when the invocation started
    diskAtBatch,     \* history: checkpoint file when the batch was taken
    hist,            \* history: error-free invocations since a fresh start
    last,            \* history: how the previous invocation ended
    lastOp,          \* bare-API runs: the operation applied last
    apiRet,          \* bare-API runs: what it returned
    appended         \* history: new tracks appended since the record was synced

vars == <<upstream, edits, fs, yt, runs, pc, syncMode, maxTracks, mem,
          tracksToProcess, newResults, addIdx, saveRet, diskAtStart,
          diskAtBatch, hist, last, lastOp, apiRet, appended>>

\* the part of PortPlaylist a position belongs to: before the batch is taken
\* ("pre"), or from the batch to the end of its SaveState ("batch")
Stage(p) ==
    IF \/ p \in {"idle", "init", "auth_failed", "load", "check", "batch"}
       \/ p \in {"save", "save_writing", "save_rename"} /\ saveRet = "check"
    THEN "pre"
    ELSE IF p = "report" THEN "post" ELSE "batch"

\* no edit of the source playlist yet / an edit history that is not a plain
\* appending of new tracks
NoneAppended == [ok |-> TRUE, base |-> 0, new |-> <<>>]
NotAppendOnly == [ok |-> FALSE, base |-> 0, new |-> <<>>]

NoLast == [how |-> "none", stage |-> "pre", batch |-> <<>>, sync |-> FALSE,
           limit |-> 0, src |-> <<>>, disk0 |-> NoFile, disk1 |-> NoFile]

Init ==
    /\ upstream \in Playlists
    /\ edits = 0
    /\ \E old \in {NoFile} \cup Malformed \cup LegacyStates(upstream) :
          /\ fs = [p \in Paths |-> IF p = statePath THEN old ELSE NoFile]
          /\ hist = [pure |-> (old = NoFile), k |-> 0, limit |-> 0]
    /\ yt = [playlists |-> 0, items |-> <<>>]
    /\ runs = 0
    /\ pc = "idle"
    /\ syncMode = FALSE
    /\ maxTracks = 1
    /\ mem = NoState
    /\ tracksToProcess = <<>>
    /\ newResults = <<>>
    /\ addIdx = 0
    /\ saveRet = "none"
    /\ diskAtStart = NoFile
    /\ diskAtBatch = NoFile
    /\ last = NoLast
    /\ lastOp = <<"none", <<>>>>
    /\ apiRet = <<>>
    /\ appended = NoneAppended

HistVars == <<lastOp, apiRet, appended>>

\* the invocation ends (return, error or crash): the process's memory is gone
End(how) ==
    /\ last' = IF how = "ok" \/ Stage(pc) = "pre" THEN NoLast
               ELSE [how |-> how, stage |-> Stage(pc), batch |-> tracksToProcess,
                     sync |-> syncMode, limit |-> maxTracks, src |-> upstream,
                     disk0 |-> diskAtStart, disk1 |-> diskAtBatch]
    /\ hist' = IF how = "ok" /\ hist.pure
               THEN [hist EXCEPT !.k = @ + 1]
               ELSE [pure |-> FALSE, k |-> 0, limit |-> 0]
    /\ pc' = "idle"
    /\ mem' = NoState
    /\ tracksToProcess' = <<>>
    /\ newResults' = <<>>
    /\ addIdx' = 0
    /\ saveRet' = "none"
    /\ diskAtStart' = NoFile
    /\ diskAtBatch' = NoFile
    /\ UNCHANGED <<syncMode, maxTracks, runs, HistVars>>

\* move to a step of PortPlaylist; SaveState remembers where it returns to
GoTo(step) ==
    /\ pc' = step
    /\ saveRet' = IF step = "save" THEN StepAfter("save") ELSE saveRet

\* main: flags parsed (-max-tracks >= 1), orchestrator.New, PortPlaylist.
\* PortPlaylist reads the -sync flag only on a Complete state, so the flag is
\* taken as unset where it cannot be read.
Start(sync, limit) ==
    /\ pc = "idle"
    /\ runs < MaxRuns
    /\ sync => IsState(fs[statePath]) /\ fs[statePath].isComplete
    /\ runs' = runs + 1
    /\ syncMode' = sync
    /\ maxTracks' = limit
    /\ pc' = "init"
    /\ diskAtStart' = fs[statePath]
    /\ hist' = IF hist.pure /\ hist.limit \in {0, limit}
               THEN [hist EXCEPT !.limit = limit]
               ELSE [pure |-> FALSE, k |-> 0, limit |-> 0]
    /\ UNCHANGED <<upstream, edits, fs, yt, mem, tracksToProcess, newResults,
                   addIdx, saveRet, diskAtBatch, last, HistVars>>

\* the positions of PortPlaylist at which the clients authenticate
AuthPoints_lazy == {"init", "match"}

AuthPoints == {"init"}

\* Step 1: initializeClients
InitializeClients ==
    /\ pc = "init"
    /\ pc' = "load"
    /\ UNCHANGED <<upstream, edits, fs, yt, runs, syncMode, maxTracks, mem,
                   tracksToProcess, newResults, addIdx, saveRet, diskAtStart,
                   diskAtBatch, hist, last, HistVars>>

\* initializeClients: state.NewManager cannot create the state directory
InitializeClientsErr ==
    /\ pc = "init"
    /\ End("error")
    /\ UNCHANGED <<upstream, edits, fs, yt>>

\* initializeClients: spt.NewClient or tubo.NewClient fails to authenticate
AuthenticateErr ==
    /\ pc \in AuthPoints
    /\ \E catalog \in {"spt", "tubo"} : pc' = "auth_failed"
    /\ UNCHANGED <<upstream, edits, fs, yt, runs, syncMode, maxTracks, mem,
                   tracksToProcess, newResults, addIdx, saveRet, diskAtStart,
                   diskAtBatch, hist, last, HistVars>>

\* ... and PortPlaylist returns the error
AuthErrReturned ==
    /\ pc = "auth_failed"
    /\ End("error")
    /\ UNCHANGED <<upstream, edits, fs, yt>>

\* Step 3: loadOrCreateState, an existing record (migrated if needed)
LoadExisting ==
    /\ pc = "load"
    /\ ~LoadState(fs[statePath], TRUE).err
    /\ LoadState(fs[statePath], TRUE).state # NoState
    /\ LET existing == LoadState(fs[statePath], TRUE).state
       IN IF NeedsMigration(existing)
          THEN /\ mem' = Migrate(existing)
               /\ pc' = "save"
               /\ saveRet' = "check"
          ELSE /\ mem' = existing
               /\ pc' = "check"
               /\ saveRet' = saveRet
    /\ UNCHANGED <<upstream, edits, fs, yt, runs, syncMode, maxTracks,
                   tracksToProcess, newResults, addIdx, diskAtStart,
                   diskAtBatch, hist, last, HistVars>>

\* Step 3: loadOrCreateState, LoadState fails
LoadStateErr ==
    /\ pc = "load"
    /\ \E readOk \in BOOLEAN : LoadState(fs[statePath], readOk).err
    /\ End("error")
    /\ UNCHANGED <<upstream, edits, fs, yt>>

\* Step 3: loadOrCreateState, no record: fetch the playlist, create, save
LoadCreate ==
    /\ pc = "load"
    /\ ~LoadState(fs[statePath], TRUE).err
    /\ LoadState(fs[statePath], TRUE).state = NoState
    /\ mem' = CreateNewState(upstream, runs)
    /\ pc' = "save"
    /\ saveRet' = "check"
    /\ UNCHANGED <<upstream, edits, fs, yt, runs, syncMode, maxTracks,
                   tracksToProcess, newResults, addIdx, diskAtStart,
                   diskAtBatch, hist, last, HistVars>>

LoadFetchErr ==
    /\ pc = "load"
    /\ ~LoadState(fs[statePath], TRUE).err
    /\ LoadState(fs[statePath], TRUE).state = NoState
    /\ End("error")
    /\ UNCHANGED <<upstream, edits, fs, yt>>

\* SaveState: stamp, marshal, start writing the temporary file
SaveWriteBegin ==
    /\ pc = "save"
    /\ mem' = [mem EXCEPT !.lastUpdatedAt = runs]
    /\ fs' = WriteFile(fs, TmpPath(statePath), Partial)
    /\ pc' = "save_writing"
    /\ UNCHANGED <<upstream, edits, yt, runs, syncMode, maxTracks,
                   tracksToProcess, newResults, addIdx, saveRet, diskAtStart,
                   diskAtBatch, hist, last, HistVars>>

\* SaveState: os.WriteFile completes
SaveWriteEnd ==
    /\ pc = "save_writing"
    /\ fs' = WriteFile(fs, TmpPath(statePath), mem)
    /\ pc' = "save_rename"
    /\ UNCHANGED <<upstream, edits, yt, runs, syncMode, maxTracks, mem,
                   tracksToProcess, newResults, addIdx, saveRet, diskAtStart,
                   diskAtBatch, hist, last, HistVars>>

\* SaveState: os.WriteFile fails
SaveWriteErr ==
    /\ pc = "save_writing"
    /\ End("error")
    /\ UNCHANGED <<upstream, edits, fs, yt>>

\* SaveState: os.Rename
SaveRename ==
    /\ pc = "save_rename"
    /\ fs' = Rename(fs, TmpPath(statePath), statePath)
    /\ pc' = saveRet
    /\ UNCHANGED <<upstream, edits, yt, runs, syncMode, maxTracks, mem,
                   tracksToProcess, newResults, addIdx, saveRet, diskAtStart,
                   diskAtBatch, hist, last, HistVars>>

\* SaveState: os.Rename fails, the temporary file is removed
SaveRenameErr ==
    /\ pc = "save_rename"
    /\ fs' = Remove(fs, TmpPath(statePath))
    /\ End("error")
    /\ UNCHANGED <<upstream, edits, yt>>

AlreadyComplete_resave ==
    /\ pc = "check"
    /\ mem.isComplete /\ ~syncMode
    /\ End("ok")
    /\ fs' = WriteFile(fs, statePath, [mem EXCEPT !.lastUpdatedAt = runs])
    /\ UNCHANGED <<upstream, edits, yt>>

\* "Check if already complete": complete and not in sync mode
AlreadyComplete ==
    /\ pc = "check"
    /\ mem.isComplete /\ ~syncMode
    /\ End("ok")
    /\ UNCHANGED <<upstream, edits, fs, yt>>

\* sync mode on a complete state: the current playlist cannot be fetched
SyncFetchErr ==
    /\ pc = "check"
    /\ mem.isComplete /\ syncMode
    /\ End("error")
    /\ UNCHANGED <<upstream, edits, fs, yt>>

\* sync mode on a complete state: no new track
SyncUpToDate ==
    /\ pc = "check"
    /\ mem.isComplete /\ syncMode
    /\ DetectNewTracks(mem, upstream) = <<>>
    /\ End("ok")
    /\ UNCHANGED <<upstream, edits, fs, yt>>

\* sync mode on a complete state: new tracks, the state is re-opened
SyncNewTracks ==
    /\ pc = "check"
    /\ mem.isComplete /\ syncMode
    /\ DetectNewTracks(mem, upstream) # <<>>
    /\ mem' = SyncUpdate(DetectNewTracksState(mem), upstream, runs)
    /\ pc' = "batch"
    /\ UNCHANGED <<upstream, edits, fs, yt, runs, syncMode, maxTracks,
                   tracksToProcess, newResults, addIdx, saveRet, diskAtStart,
                   diskAtBatch, hist, last, HistVars>>

NotComplete ==
    /\ pc = "check"
    /\ ~mem.isComplete
    /\ pc' = "batch"
    /\ UNCHANGED <<upstream, edits, fs, yt, runs, syncMode, maxTracks, mem,
                   tracksToProcess, newResults, addIdx, saveRet, diskAtStart,
                   diskAtBatch, hist, last, HistVars>>

\* Step 5: nothing left to process
NoMoreTracks ==
    /\ pc = "batch"
    /\ GetNextBatch(mem, maxTracks) = <<>>
    /\ End("ok")
    /\ UNCHANGED <<upstream, edits, fs, yt>>

\* Step 5: the next batch; a session is opened
NextBatch ==
    /\ pc = "batch"
    /\ GetNextBatch(mem, maxTracks) # <<>>
    /\ tracksToProcess' = GetNextBatch(mem, maxTracks)
    /\ mem' = StartNewSession(mem)
    /\ diskAtBatch' = fs[statePath]
    /\ pc' = "match"
    /\ UNCHANGED <<upstream, edits, fs, yt, runs, syncMode, maxTracks,
                   newResults, addIdx, saveRet, diskAtStart, hist, last,
                   HistVars>>

\* Steps 7-8: matchTracks, AddMatchResults, EndCurrentSession
MatchAndMerge ==
    /\ pc = "match"
    /\ \E outcome \in [1..Len(tracksToProcess) -> BOOLEAN] :
          LET results == MatchTracks(tracksToProcess, outcome)
          IN /\ newResults' = results
             /\ mem' = EndCurrentSession(AddMatchResults(mem, results),
                                         Len(results), MatchedCount(results))
    /\ GoTo(StepAfter("merge"))
    /\ UNCHANGED <<upstream, edits, fs, yt, runs, syncMode, maxTracks,
                   tracksToProcess, addIdx, diskAtStart, diskAtBatch, hist,
                   last, HistVars>>

\* Step 9: manageYouTubePlaylist, no matched video in the batch
ManageNothingToAdd ==
    /\ pc = "yt"
    /\ NewVideoIDs(newResults) = <<>>
    /\ GoTo(StepAfter("yt"))
    /\ UNCHANGED <<upstream, edits, fs, yt, runs, syncMode, maxTracks, mem,
                   tracksToProcess, newResults, addIdx, diskAtStart,
                   diskAtBatch, hist, last, HistVars>>

\* Step 9: the target playlist does not exist yet and is created
ManageCreatePlaylist ==
    /\ pc = "yt"
    /\ NewVideoIDs(newResults) # <<>>
    /\ mem.youTubePlaylistID = 0
    /\ yt' = [yt EXCEPT !.playlists = @ + 1]
    /\ mem' = [mem EXCEPT !.youTubePlaylistID = yt.playlists + 1]
    /\ pc' = "yt_add"
    /\ UNCHANGED <<upstream, edits, fs, runs, syncMode, maxTracks,
                   tracksToProcess, newResults, addIdx, saveRet, diskAtStart,
                   diskAtBatch, hist, last, HistVars>>

ManageCreatePlaylistErr ==
    /\ pc = "yt"
    /\ NewVideoIDs(newResults) # <<>>
    /\ mem.youTubePlaylistID = 0
    /\ End("target")
    /\ UNCHANGED <<upstream, edits, fs, yt>>

\* Step 9: the target playlist exists
ManageExistingPlaylist ==
    /\ pc = "yt"
    /\ NewVideoIDs(newResults) # <<>>
    /\ mem.youTubePlaylistID # 0
    /\ pc' = "yt_add"
    /\ UNCHANGED <<upstream, edits, fs, yt, runs, syncMode, maxTracks, mem,
                   tracksToProcess, newResults, addIdx, saveRet, diskAtStart,
                   diskAtBatch, hist, last, HistVars>>

\* AddTracksToPlaylist: one playlistItems request succeeds
AddTrack ==
    /\ pc = "yt_add"
    /\ addIdx < Len(NewVideoIDs(newResults))
    /\ yt' = [yt EXCEPT !.items =
                 Append(@, <<mem.youTubePlaylistID, NewVideoIDs(newResults)[addIdx + 1]>>)]
    /\ addIdx' = addIdx + 1
    /\ UNCHANGED <<upstream, edits, fs, runs, pc, syncMode, maxTracks, mem,
                   tracksToProcess, newResults, saveRet, diskAtStart,
                   diskAtBatch, hist, last, HistVars>>

\* AddTracksToPlaylist: one playlistItems request fails
AddTrackErr ==
    /\ pc = "yt_add"
    /\ addIdx < Len(NewVideoIDs(newResults))
    /\ End("target")
    /\ UNCHANGED <<upstream, edits, fs, yt>>

\* AddTracksToPlaylist returns nil
AddTracksDone ==
    /\ pc = "yt_add"
    /\ addIdx = Len(NewVideoIDs(newResults))
    /\ GoTo(StepAfter("yt"))
    /\ UNCHANGED <<upstream, edits, fs, yt, runs, syncMode, maxTracks, mem,
                   tracksToProcess, newResults, addIdx, diskAtStart,
                   diskAtBatch, hist, last, HistVars>>

\* Step 11: report, return nil
Report ==
    /\ pc = "report"
    /\ End("ok")
    /\ UNCHANGED <<upstream, edits, fs, yt>>

\* the process is killed at any point of an invocation
Crash ==
    /\ pc # "idle"
    /\ End("crash")
    /\ UNCHANGED <<upstream, edits, fs, yt>>

RemoveAt(s, i) == SubSeq(s, 1, i - 1) \o SubSeq(s, i + 1, Len(s))

\* ids are interchangeable: a track the owner adds is one the playlist or the
\* record knows, or the least id that neither knows
KnownIds ==
    Range(upstream) \cup Range(fs[statePath].tracks)
                    \cup ResultIds(fs[statePath].matchResults)

AddableIds == {t \in Ids : \A j \in 1..(t - 1) : j \in KnownIds}

\* history of the appends: the record on disk is Complete; the new tracks are
\* counted from the snapshot it holds, and `base` is the number of results it
\* has.  An appended track that is processed already, or appended before, is
\* not a new track.
AppendedAfter(t) ==
    LET R == Migrate(fs[statePath])
        prev == IF upstream = R.tracks THEN <<>> ELSE appended.new
    IN IF /\ upstream = R.tracks \o prev
          /\ upstream = R.tracks \/ appended.ok
          /\ t \notin R.processedTrackIDs
          /\ t \notin Range(prev)
       THEN [ok |-> TRUE, base |-> Len(R.matchResults), new |-> Append(prev, t)]
       ELSE NotAppendOnly

\* Between invocations the owner appends a track to the source playlist.  The
\* program reads the source playlist only when it has no record or syncs a
\* Complete one, so an edit is taken at the last moment before it can be seen.
UpstreamAppend ==
    /\ pc = "idle"
    /\ IsState(fs[statePath])
    /\ fs[statePath].isComplete
    /\ edits < MaxEdits
    /\ Len(upstream) < MaxLen
    /\ \E t \in AddableIds :
          /\ upstream' = Append(upstream, t)
          /\ appended' = AppendedAfter(t)
    /\ edits' = edits + 1
    /\ hist' = [pure |-> FALSE, k |-> 0, limit |-> 0]
    /\ UNCHANGED <<fs, yt, runs, pc, syncMode, maxTracks, mem, tracksToProcess,
                   newResults, addIdx, saveRet, diskAtStart, diskAtBatch, last,
                   lastOp, apiRet>>

\* ... or removes one
UpstreamRemove ==
    /\ pc = "idle"
    /\ IsState(fs[statePath])
    /\ fs[statePath].isComplete
    /\ edits < MaxEdits
    /\ \E i \in 1..Len(upstream) :
          upstream' = RemoveAt(upstream, i)
    /\ edits' = edits + 1
    /\ hist' = [pure |-> FALSE, k |-> 0, limit |-> 0]
    /\ appended' = NotAppendOnly
    /\ UNCHANGED <<fs, yt, runs, pc, syncMode, maxTracks, mem, tracksToProcess,
                   newResults, addIdx, saveRet, diskAtStart, diskAtBatch, last,
                   lastOp, apiRet>>

\* ... or removes one and appends another in the same sitting
UpstreamReplace ==
    /\ pc = "idle"
    /\ IsState(fs[statePath])
    /\ fs[statePath].isComplete
    /\ edits < MaxEdits
    /\ \E i \in 1..Len(upstream), t \in AddableIds :
          upstream' = Append(RemoveAt(upstream, i), t)
    /\ edits' = edits + 1
    /\ hist' = [pure |-> FALSE, k |-> 0, limit |-> 0]
    /\ appended' = NotAppendOnly
    /\ UNCHANGED <<fs, yt, runs, pc, syncMode, maxTracks, mem, tracksToProcess,
                   newResults, addIdx, saveRet, diskAtStart, diskAtBatch, last,
                   lastOp, apiRet>>

Next ==
    \/ \E sync \in BOOLEAN, limit \in Limits : Start(sync, limit)
    \/ InitializeClients
    \/ InitializeClientsErr
    \/ AuthenticateErr
    \/ AuthErrReturned
    \/ LoadExisting
    \/ LoadStateErr
    \/ LoadCreate
    \/ LoadFetchErr
    \/ SaveWriteBegin
    \/ SaveWriteEnd
    \/ SaveWriteErr
    \/ SaveRename
    \/ SaveRenameErr
    \/ AlreadyComplete
    \/ SyncFetchErr
    \/ SyncUpToDate
    \/ SyncNewTracks
    \/ NotComplete
    \/ NoMoreTracks
    \/ NextBatch
    \/ MatchAndMerge
    \/ ManageNothingToAdd
    \/ ManageCreatePlaylist
    \/ ManageCreatePlaylistErr
    \/ ManageExistingPlaylist
    \/ AddTrack
    \/ AddTrackErr
    \/ AddTracksDone
    \/ Report
    \/ Crash
    \/ UpstreamAppend
    \/ UpstreamRemove
    \/ UpstreamReplace

Spec == Init /\ [][Next]_vars

\* ---------------------------------------------- the store's API on its own
\* The operations of state.go applied in any order to one state in memory,
\* as a caller other than PortPlaylist may apply them.
ResultLists ==
    {MatchTracks(t, o) : t \in SeqsUpTo(Ids, 2),
                         o \in {[i \in 1..2 |-> b] : b \in BOOLEAN}}

OrchVars == <<upstream, edits, fs, yt, runs, pc, syncMode, maxTracks,
              tracksToProcess, newResults, addIdx, saveRet, diskAtStart,
              diskAtBatch, hist, last, appended>>

InitAPI ==
    /\ upstream \in Playlists
    /\ mem \in {NoState} \cup LegacyStates(upstream)
    /\ edits = 0
    /\ fs = [p \in Paths |-> NoFile]
    /\ yt = [playlists |-> 0, items |-> <<>>]
    /\ runs = 0
    /\ pc = "api"
    /\ syncMode = FALSE
    /\ maxTracks = 1
    /\ tracksToProcess = <<>>
    /\ newResults = <<>>
    /\ addIdx = 0
    /\ saveRet = "none"
    /\ diskAtStart = NoFile
    /\ diskAtBatch = NoFile
    /\ hist = [pure |-> FALSE, k |-> 0, limit |-> 0]
    /\ last = NoLast
    /\ lastOp = <<"none", <<>>>>
    /\ apiRet = <<>>
    /\ appended = NoneAppended

ApiCreate ==
    /\ mem = NoState
    /\ mem' = CreateNewState(upstream, 0)
    /\ lastOp' = <<"create", <<>>>>
    /\ apiRet' = <<>>
    /\ UNCHANGED OrchVars

ApiGetNextBatch(limit) ==
    /\ IsState(mem)
    /\ apiRet' = GetNextBatch(mem, limit)
    /\ lastOp' = <<"batch", <<>>>>
    /\ UNCHANGED <<mem, OrchVars>>

ApiMergeResults(results) ==
    /\ IsState(mem)
    /\ Len(mem.matchResults) + Len(results) <= MaxResults
    /\ mem' = AddMatchResults(mem, results)
    /\ lastOp' = <<"merge", results>>
    /\ apiRet' = <<>>
    /\ UNCHANGED OrchVars

\* the call is recorded with its argument, and as "detect again" when it
\* repeats the call before it
ApiDetectNewItems(current) ==
    /\ IsState(mem)
    /\ mem' = DetectNewTracksState(mem)
    /\ apiRet' = DetectNewTracks(mem, current)
    /\ lastOp' = <<IF lastOp[1] = "detect" /\ lastOp[2] = current
                   THEN "detect again" ELSE "detect", current>>
    /\ UNCHANGED OrchVars

ApiSyncUpdate(current) ==
    /\ IsState(mem)
    /\ mem' = SyncUpdate(mem, current, 1)
    /\ lastOp' = <<"sync", <<>>>>
    /\ apiRet' = <<>>
    /\ UNCHANGED OrchVars

\* recorded as "migrate again" when it repeats the call before it
ApiMigrate ==
    /\ IsState(mem)
    /\ mem' = Migrate(mem)
    /\ lastOp' = <<IF lastOp[1] = "migrate" THEN "migrate again" ELSE "migrate",
                   <<>>>>
    /\ apiRet' = <<>>
    /\ UNCHANGED OrchVars

NextAPI ==
    \/ ApiCreate
    \/ \E limit \in Limits : ApiGetNextBatch(limit)
    \/ \E results \in ResultLists : ApiMergeResults(results)
    \/ \E current \in Playlists : ApiDetectNewItems(current)
    \/ \E current \in Playlists : ApiSyncUpdate(current)
    \/ ApiMigrate

SpecAPI == InitAPI /\ [][NextAPI]_vars

\* ------------------------------------------------- scoring and searching
\* Scores are kept exact: a similarity is a number of MaxStr-ths, a score a
\* number of (100 * MaxStr)-ths.
One == 100 * MaxStr

TitleWeight == 70
ArtistWeight == 30
ArtistInTitleBonus == 15
TitleInTitleBonus == 10
OfficialBonus == 5
VersionPenalty == 10
DurationBonus == 10
GoodMatch == 75
MinThreshold == 50
NumStrategies == 2

\* two strings as stringSimilarity sees them: equal, one of them empty, or
\* different at Levenshtein distance d (at most the longer length)
StrCmps ==
    {[kind |-> "equal", d |-> 0], [kind |-> "empty", d |-> MaxStr]}
        \cup {[kind |-> "other", d |-> d] : d \in 1..MaxStr}

stringSimilarity(c) ==
    IF c.kind = "equal" THEN MaxStr
    ELSE IF c.kind = "empty" THEN 0
    ELSE MaxStr - c.d

\* a source track against a search item, as calculateSimilarity sees them
CandidateCmps ==
    [title : StrCmps, artist : StrCmps, artistInTitle : BOOLEAN,
     titleInTitle : BOOLEAN, official : BOOLEAN, version : BOOLEAN]

\* tubo: calculateSimilarity, capped at 1.0 only
calculateSimilarity(c) ==
    LET bonusScore == (IF c.artistInTitle THEN ArtistInTitleBonus ELSE 0)
                      + (IF c.titleInTitle THEN TitleInTitleBonus ELSE 0)
                      + (IF c.official THEN OfficialBonus ELSE 0)
                      - (IF c.version THEN VersionPenalty ELSE 0)
        finalScore == stringSimilarity(c.title) * TitleWeight
                      + stringSimilarity(c.artist) * ArtistWeight
                      + bonusScore * MaxStr
    IN IF finalScore > One THEN One ELSE finalScore

\* two tracks as the processor's CalculateMatchScore sees them
TrackCmps ==
    [title : StrCmps, artist : StrCmps, sameISRC : BOOLEAN, closeDuration : BOOLEAN]

CalculateMatchScore(c) ==
    LET weighted == stringSimilarity(c.title) * TitleWeight
                    + stringSimilarity(c.artist) * ArtistWeight
        withISRC == IF c.sameISRC THEN One ELSE weighted
        finalScore == IF c.closeDuration THEN withISRC + DurationBonus * MaxStr
                      ELSE withISRC
    IN IF finalScore > One THEN One ELSE finalScore

\* the items a search returns, each as it compares with the track searched
\* for: title and artist alike, no bonus, with or without the penalty
SearchCmps ==
    {c \in CandidateCmps : /\ c.title = c.artist /\ c.title.kind # "empty"
                           /\ ~c.artistInTitle /\ ~c.titleInTitle /\ ~c.official}

\* c.search: an error, or a response with its items
Responses ==
    {[err |-> TRUE, items |-> <<>>]}
        \cup {[err |-> FALSE, items |-> l] : l \in SeqsUpTo(SearchCmps, MaxCands)}

\* no candidate (nil); a candidate is named by the strategy that found it and
\* its place in the response
NoMatch == <<0, 0>>

RECURSIVE FindBest_lastWins(_, _, _)
FindBest_lastWins(items, i, best) ==
    IF i > Len(items) THEN best
    ELSE LET score == calculateSimilarity(items[i])
         IN FindBest_lastWins(items, i + 1,
                     IF score >= best.score THEN [match |-> i, score |-> score]
                     ELSE best)

\* findBestMatch: the first item of the highest score above 0
RECURSIVE FindBest(_, _, _)
FindBest(items, i, best) ==
    IF i > Len(items) THEN best
    ELSE LET score == calculateSimilarity(items[i])
         IN FindBest(items, i + 1,
                     IF score > best.score THEN [match |-> i, score |-> score]
                     ELSE best)

findBestMatch(items) == FindBest(items, 1, [match |-> 0, score |-> 0])

\* before the first strategy: no candidate, score 0, no search issued
NoneYet == [match |-> NoMatch, score |-> 0, calls |-> <<>>]

RECURSIVE SearchFrom_stopAtError(_, _, _)
SearchFrom_stopAtError(responses, i, best) ==
    IF i > Len(responses) THEN best
    ELSE LET called == [best EXCEPT !.calls = Append(@, i)]
         IN IF responses[i].err THEN called
            ELSE IF responses[i].items = <<>>
            THEN SearchFrom_stopAtError(responses, i + 1, called)
            ELSE LET found == findBestMatch(responses[i].items)
                     better == IF found.score > best.score
                               THEN [called EXCEPT
                                        !.match = IF found.match = 0 THEN NoMatch
                                                  ELSE <<i, found.match>>,
                                        !.score = found.score]
                               ELSE called
                 IN IF found.score >= GoodMatch * MaxStr THEN better
                    ELSE SearchFrom_stopAtError(responses, i + 1, better)

RECURSIVE SearchFrom_exhaustive(_, _, _)
SearchFrom_exhaustive(responses, i, best) ==
    IF i > Len(responses) THEN best
    ELSE LET called == [best EXCEPT !.calls = Append(@, i)]
         IN IF responses[i].err \/ responses[i].items = <<>>
            THEN SearchFrom_exhaustive(responses, i + 1, called)
            ELSE LET found == findBestMatch(responses[i].items)
                     better == IF found.score > best.score
                               THEN [called EXCEPT
                                        !.match = IF found.match = 0 THEN NoMatch
                                                  ELSE <<i, found.match>>,
                                        !.score = found.score]
                               ELSE called
                 IN SearchFrom_exhaustive(responses, i + 1, better)

\* SearchTrack's loop over the strategies from the i-th on; calls lists the
\* strategies whose query was given to c.search, in the order of the calls
RECURSIVE SearchFrom(_, _, _)
SearchFrom(responses, i, best) ==
    IF i > Len(responses) THEN best
    ELSE LET called == [best EXCEPT !.calls = Append(@, i)]
         IN IF responses[i].err \/ responses[i].items = <<>>
            THEN SearchFrom(responses, i + 1, called)
            ELSE LET found == findBestMatch(responses[i].items)
                     better == IF found.score > best.score
                               THEN [called EXCEPT
                                        !.match = IF found.match = 0 THEN NoMatch
                                                  ELSE <<i, found.match>>,
                                        !.score = found.score]
                               ELSE called
                 IN IF found.score >= GoodMatch * MaxStr THEN better
                    ELSE SearchFrom(responses, i + 1, better)

\* the c.search calls one SearchTrack call issues
SearchCalls(responses) == SearchFrom(responses, 1, NoneYet).calls

SearchTrack_noThreshold(responses) ==
    LET best == SearchFrom(responses, 1, NoneYet)
    IN [match |-> best.match, score |-> best.score, err |-> FALSE]

\* SearchTrack: (bestMatch, bestScore, nil), or (nil, 0, nil) below the
\* minimum threshold
SearchTrack(responses) ==
    LET best == SearchFrom(responses, 1, NoneYet)
    IN IF best.score < MinThreshold * MaxStr
       THEN [match |-> NoMatch, score |-> 0, err |-> FALSE]
       ELSE [match |-> best.match, score |-> best.score, err |-> FALSE]

SearchInputs == [1..NumStrategies -> Responses]

\* what a SearchTrack call may return to matchTracks: the results of the
\* two-strategy SearchTrack, and the error the single-query SearchTrack
\* returns when its search fails
SearchErr == [match |-> NoMatch, score |-> 0, err |-> TRUE]
SearchOutcomes == {SearchTrack(rs) : rs \in SearchInputs} \cup {SearchErr}

\* matchTracks: the MatchResult of one track
MatchResultOf(track, found) ==
    IF found.err
    THEN [id |-> track, matched |-> FALSE, candidate |-> NoMatch, score |-> 0,
          error |-> TRUE]
    ELSE IF found.match # NoMatch
    THEN [id |-> track, matched |-> TRUE, candidate |-> found.match,
          score |-> found.score, error |-> FALSE]
    ELSE [id |-> track, matched |-> FALSE, candidate |-> NoMatch, score |-> 0,
          error |-> FALSE]

matchTracks_stopAtError(tracks, found) ==
    LET failed == {i \in 1..Len(tracks) : found[i].err}
        n == IF failed = {} THEN Len(tracks)
             ELSE CHOOSE i \in failed : \A j \in failed : i <= j
    IN [i \in 1..n |-> MatchResultOf(tracks[i], found[i])]

\* matchTracks: found[i] is what SearchTrack returned for the i-th track
matchTracks(tracks, found) ==
    [i \in 1..Len(tracks) |-> MatchResultOf(tracks[i], found[i])]

\* ------------------------------------------------------ the normaliser
\* a string is the sequence of its characters; "." stands for every
\* printable character that is no letter, digit, space or bracket
Letters == {"a", "m", "i", "x"}
Chars == Letters \cup {"A", "á", "(", ")", "[", "]", ".", " "}
Strings == SeqsUpTo(Chars, MaxInput)

IsSpace(ch) == ch = " "

ToLowerChar(ch) == IF ch = "A" THEN "a" ELSE ch

ToLower(s) == [i \in 1..Len(s) |-> ToLowerChar(s[i])]

\* removeDiacritics: an accented letter becomes its base letter, a letter, a
\* digit or a space stays, every other character becomes a space
removeDiacritics(s) ==
    [i \in 1..Len(s) |->
        IF ToLowerChar(s[i]) = "á" THEN "a"
        ELSE IF s[i] \in Letters \cup {"A", " "} THEN s[i]
        ELSE " "]

\* ReplaceAllString(s, " ") for open [^close]* close
RECURSIVE ReplaceEnclosed(_, _, _)
ReplaceEnclosed(s, open, close) ==
    IF s = <<>> THEN <<>>
    ELSE LET ends == {j \in 2..Len(s) : s[j] = close}
         IN IF s[1] = open /\ ends # {}
            THEN LET j == CHOOSE e \in ends : \A f \in ends : e <= f
                 IN <<" ">> \o ReplaceEnclosed(SubSeq(s, j + 1, Len(s)),
                                               open, close)
            ELSE <<s[1]>> \o ReplaceEnclosed(Tail(s), open, close)

\* the word w stands in s at position k, letter case ignored ((?i))
HasAt(s, k, w) ==
    /\ k + Len(w) - 1 <= Len(s)
    /\ \A j \in 1..Len(w) : ToLowerChar(s[k + j - 1]) = w[j]

FeatWords == {<<"f", "e", "a", "t", ".">>, <<"f", "t", ".">>}

RemixWords ==
    {<<"r", "e", "m", "i", "x">>, <<"m", "i", "x">>, <<"e", "d", "i", "t">>,
     <<"v", "e", "r", "s", "i", "o", "n">>,
     <<"r", "e", "m", "a", "s", "t", "e", "r">>}

\* ReplaceAllString(s, " ") for \s*(w1|w2|...).* : the leftmost match starts
\* at the white space before the first occurrence of a word and runs to the
\* end of the string (no character of Chars is a line break)
ReplaceFrom(s, words) ==
    LET starts == {k \in 1..Len(s) : \E w \in words : HasAt(s, k, w)}
    IN IF starts = {} THEN s
       ELSE LET k == CHOOSE a \in starts : \A b \in starts : a <= b
                i == CHOOSE a \in 1..k :
                        /\ \A j \in a..(k - 1) : IsSpace(s[j])
                        /\ a = 1 \/ ~IsSpace(s[a - 1])
            IN SubSeq(s, 1, i - 1) \o <<" ">>

RECURSIVE TrimLeft(_)
TrimLeft(s) ==
    IF s # <<>> /\ IsSpace(s[1]) THEN TrimLeft(Tail(s)) ELSE s

RECURSIVE TrimRight(_)
TrimRight(s) ==
    IF s # <<>> /\ IsSpace(s[Len(s)])
    THEN TrimRight(SubSeq(s, 1, Len(s) - 1)) ELSE s

TrimSpace(s) == TrimRight(TrimLeft(s))

\* ReplaceAllString(s, " ") for \s+
RECURSIVE ReplaceSpaces(_)
ReplaceSpaces(s) ==
    IF s = <<>> THEN <<>>
    ELSE IF IsSpace(s[1]) THEN <<" ">> \o ReplaceSpaces(TrimLeft(s))
    ELSE <<s[1]>> \o ReplaceSpaces(Tail(s))

\* strings.Fields: the maximal runs of characters that are not spaces
RECURSIVE Fields(_)
Fields(s) ==
    LET t == TrimLeft(s)
    IN IF t = <<>> THEN <<>>
       ELSE LET stops == {k \in 1..Len(t) : IsSpace(t[k])}
                n == IF stops = {} THEN Len(t)
                     ELSE (CHOOSE a \in stops : \A b \in stops : a <= b) - 1
            IN <<SubSeq(t, 1, n)>> \o Fields(SubSeq(t, n + 1, Len(t)))

\* strings.Join(words, " ")
RECURSIVE Join(_)
Join(words) ==
    IF words = <<>> THEN <<>>
    ELSE IF Len(words) = 1 THEN words[1]
    ELSE words[1] \o <<" ">> \o Join(Tail(words))

commonWords ==
    {<<"t", "h", "e">>, <<"a">>, <<"a", "n">>, <<"a", "n", "d">>,
     <<"o", "r">>, <<"b", "u", "t">>, <<"i", "n">>, <<"o", "n">>,
     <<"a", "t">>, <<"t", "o">>, <<"f", "o", "r">>, <<"o", "f">>,
     <<"w", "i", "t", "h">>, <<"b", "y">>, <<"i", "s">>, <<"a", "r", "e">>,
     <<"w", "a", "s">>, <<"w", "e", "r", "e">>, <<"b", "e">>,
     <<"b", "e", "e", "n">>, <<"h", "a", "v", "e">>, <<"h", "a", "s">>,
     <<"h", "a", "d">>, <<"d", "o">>, <<"d", "o", "e", "s">>,
     <<"d", "i", "d">>, <<"w", "i", "l", "l">>,
     <<"w", "o", "u", "l", "d">>, <<"c", "o", "u", "l", "d">>,
     <<"s", "h", "o", "u", "l", "d">>, <<"m", "a", "y">>,
     <<"m", "i", "g", "h", "t">>, <<"m", "u", "s", "t">>,
     <<"c", "a", "n">>, <<"s", "h", "a", "l", "l">>,
     <<"o", "f", "f", "i", "c", "i", "a", "l">>,
     <<"m", "u", "s", "i", "c">>, <<"v", "i", "d", "e", "o">>,
     <<"a", "u", "d", "i", "o">>, <<"l", "y", "r", "i", "c">>,
     <<"l", "y", "r", "i", "c", "s">>, <<"h", "d">>, <<"h", "q">>}

removeCommonWords(s) ==
    Join(SelectSeq(Fields(s), LAMBDA w : w \notin commonWords))

\* the five cleanupPatterns, applied in their order
cleanup(s) ==
    LET p1 == ReplaceEnclosed(s, "(", ")")
        p2 == ReplaceEnclosed(p1, "[", "]")
        p3 == ReplaceFrom(p2, FeatWords)
        p4 == ReplaceFrom(p3, RemixWords)
    IN ReplaceSpaces(p4)

normalizeString_wordsFirst(input) ==
    IF input = <<>> THEN <<>>
    ELSE ReplaceSpaces(TrimSpace(cleanup(removeCommonWords(
             removeDiacritics(ToLower(input))))))

normalizeString(input) ==
    IF input = <<>> THEN <<>>
    ELSE ReplaceSpaces(TrimSpace(removeCommonWords(cleanup(
             removeDiacritics(ToLower(input))))))

\* the matcher on its own: one call of a scorer, of SearchTrack, of
\* matchTracks or of the normaliser on inputs of its own
InitMatch ==
    /\ upstream = <<>>
    /\ mem = NoState
    /\ edits = 0
    /\ fs = [p \in Paths |-> NoFile]
    /\ yt = [playlists |-> 0, items |-> <<>>]
    /\ runs = 0
    /\ pc = "matching"
    /\ syncMode = FALSE
    /\ maxTracks = 1
    /\ tracksToProcess = <<>>
    /\ newResults = <<>>
    /\ addIdx = 0
    /\ saveRet = "none"
    /\ diskAtStart = NoFile
    /\ diskAtBatch = NoFile
    /\ hist = [pure |-> FALSE, k |-> 0, limit |-> 0]
    /\ last = NoLast
    /\ lastOp = <<"none", <<>>>>
    /\ apiRet = <<>>
    /\ appended = NoneAppended

MatchFrame ==
    /\ pc = "matching"
    /\ pc' = "returned"
    /\ UNCHANGED <<upstream, edits, fs, yt, runs, syncMode, maxTracks, mem,
                   addIdx, saveRet, diskAtStart, diskAtBatch, hist, last,
                   appended>>

ScoreCandidate(c) ==
    /\ MatchFrame
    /\ lastOp' = <<"score", c>>
    /\ apiRet' = <<calculateSimilarity(c)>>
    /\ UNCHANGED <<tracksToProcess, newResults>>

ScoreTracks(c) ==
    /\ MatchFrame
    /\ lastOp' = <<"composite", c>>
    /\ apiRet' = <<CalculateMatchScore(c)>>
    /\ UNCHANGED <<tracksToProcess, newResults>>

SearchOneTrack(responses) ==
    /\ MatchFrame
    /\ lastOp' = <<"search", responses>>
    /\ apiRet' = <<SearchTrack(responses), SearchCalls(responses)>>
    /\ UNCHANGED <<tracksToProcess, newResults>>

MatchBatch(tracks, found) ==
    /\ MatchFrame
    /\ lastOp' = <<"batch", found>>
    /\ apiRet' = <<>>
    /\ tracksToProcess' = tracks
    /\ newResults' = matchTracks(tracks, found)

NormalizeTrack(input) ==
    /\ MatchFrame
    /\ lastOp' = <<"normalize", input>>
    /\ apiRet' = <<normalizeString(input)>>
    /\ UNCHANGED <<tracksToProcess, newResults>>

\* the inputs of a call that has not been made yet; none once it returned
NotYetCalled(inputs) == IF pc = "matching" THEN inputs ELSE {}

NextMatch ==
    \/ \E c \in NotYetCalled(CandidateCmps) : ScoreCandidate(c)
    \/ \E c \in NotYetCalled(TrackCmps) : ScoreTracks(c)
    \/ \E responses \in NotYetCalled(SearchInputs) : SearchOneTrack(responses)
    \/ \E tracks \in NotYetCalled(SeqsUpTo(Ids, MaxSearched)) :
          \E found \in [1..Len(tracks) -> SearchOutcomes] :
             MatchBatch(tracks, found)
    \/ \E input \in NotYetCalled(Strings) : NormalizeTrack(input)

SpecMatch == InitMatch /\ [][NextMatch]_vars

\* ------------------------------------ a Complete record and a later playlist
\* tracks that no playlist of Playlists holds
NewTracks(n) == [k \in 1..n |-> MaxId + k]

\* the source playlist after the owner dropped the first d tracks and
\* appended n new ones
Reworked(tracks, d, n) == SubSeq(tracks, d + 1, Len(tracks)) \o NewTracks(n)

\* invocations on a checkpoint that an earlier run completed, after the
\* source playlist was changed at will
InitSync ==
    /\ \E tracks \in Playlists \ {<<>>} :
          \E d \in 0..Len(tracks), n \in 0..MaxNew :
             /\ upstream = Reworked(tracks, d, n)
             /\ fs = [p \in Paths |->
                         IF p = statePath THEN LegacyState(tracks, Len(tracks))
                         ELSE NoFile]
    /\ edits = MaxEdits
    /\ hist = [pure |-> FALSE, k |-> 0, limit |-> 0]
    /\ yt = [playlists |-> 0, items |-> <<>>]
    /\ runs = 0
    /\ pc = "idle"
    /\ syncMode = FALSE
    /\ maxTracks = 1
    /\ mem = NoState
    /\ tracksToProcess = <<>>
    /\ newResults = <<>>
    /\ addIdx = 0
    /\ saveRet = "none"
    /\ diskAtStart = NoFile
    /\ diskAtBatch = NoFile
    /\ last = NoLast
    /\ lastOp = <<"none", <<>>>>
    /\ apiRet = <<>>
    /\ appended = NotAppendOnly

\* PortPlaylist on an existing checkpoint: the steps of Next but those that
\* need a missing checkpoint (LoadCreate, LoadFetchErr) or an empty batch on
\* an open record (NoMoreTracks), which do not occur from InitSync
NextSync ==
    \/ \E sync \in BOOLEAN, limit \in Limits : Start(sync, limit)
    \/ InitializeClients
    \/ InitializeClientsErr
    \/ AuthenticateErr
    \/ AuthErrReturned
    \/ LoadExisting
    \/ LoadStateErr
    \/ SaveWriteBegin
    \/ SaveWriteEnd
    \/ SaveWriteErr
    \/ SaveRename
    \/ SaveRenameErr
    \/ AlreadyComplete
    \/ SyncFetchErr
    \/ SyncUpToDate
    \/ SyncNewTracks
    \/ NotComplete
    \/ NextBatch
    \/ MatchAndMerge
    \/ ManageNothingToAdd
    \/ ManageCreatePlaylist
    \/ ManageCreatePlaylistErr
    \/ ManageExistingPlaylist
    \/ AddTrack
    \/ AddTrackErr
    \/ AddTracksDone
    \/ Report
    \/ Crash

SpecSync == InitSync /\ [][NextSync]_vars

\* ------------------------------------------------------------ the claims
Distinct(s) == Cardinality(Range(s)) = Len(s)

\* the first n tracks, in order, whose id is not in ids
RECURSIVE FirstUnprocessed(_, _, _)
FirstUnprocessed(tracks, ids, n) ==
    IF tracks = <<>> \/ n = 0 THEN <<>>
    ELSE IF Head(tracks) \in ids THEN FirstUnprocessed(Tail(tracks), ids, n)
    ELSE <<Head(tracks)>> \o FirstUnprocessed(Tail(tracks), ids, n - 1)

\* the previous invocation was interrupted in its batch, and this one runs
\* with the same flags on an unchanged source playlist
RetryOf(how) ==
    /\ last.how = how
    /\ last.stage = "batch"
    /\ syncMode = last.sync
    /\ maxTracks = last.limit
    /\ upstream = last.src

\* the checkpoint file is the one the interrupted batch started from, and
\* holds no result and no processed id of that batch
BatchNotPersisted ==
    /\ fs[statePath] = last.disk1
    /\ IsState(fs[statePath])
    /\ Range(last.batch) \cap fs[statePath].processedTrackIDs = {}
    /\ Range(last.batch) \cap ResultIds(fs[statePath].matchResults) = {}

\* the invocation reaches GetNextBatch and gets the interrupted batch again
BatchRetried ==
    /\ pc = "check" /\ mem.isComplete
          => syncMode /\ DetectNewTracks(mem, upstream) # <<>>
    /\ pc = "batch" => GetNextBatch(mem, maxTracks) = last.batch

\* C1: merging the same results a second time changes neither the processed
\* count nor the MatchResults list.
C1_MergeIdempotent ==
    [][(lastOp[1] = "merge" /\ lastOp' = lastOp)
          => (mem'.processedTracks = mem.processedTracks
              /\ mem'.matchResults = mem.matchResults)]_vars

\* C2: in every state, in memory or persisted, Complete holds exactly when
\* the processed count has reached the total count.
C2_CompleteIffProcessedAll ==
    \A s \in {mem, fs[statePath]} :
        IsState(s) => (s.isComplete <=> s.processedTracks >= s.totalTracks)

\* C3: after any sequence of store operations the processed count is the
\* length of the MatchResults list.
C3_ProcessedIsLenResults ==
    IsState(mem) => mem.processedTracks = Len(mem.matchResults)

C3_Witness ==
    /\ IsState(mem)
    /\ Len(mem.matchResults) >= 2
    /\ mem.lastSyncCheck = 1
    /\ lastOp[1] = "migrate"

\* C4: in every state the orchestrator holds after loading (a legacy record
\* is migrated by then) and after every merge, the id of every MatchResult is
\* in the processed-id set.
C4_ResultIdsInProcessedSet ==
    IsState(mem) => ResultIds(mem.matchResults) \subseteq mem.processedTrackIDs

C4_Witness ==
    /\ IsState(mem)
    /\ IsState(diskAtStart)
    /\ diskAtStart.idsNil
    /\ Len(diskAtStart.matchResults) > 0
    /\ Len(mem.matchResults) > Len(diskAtStart.matchResults)

C7_AllProcessedIsComplete ==
    (IsState(mem) /\ GetUnprocessedTracks(mem) = <<>>) => mem.isComplete

\* C8: the checkpoint path never holds a partially written record, and its
\* content changes only by the rename, to the complete record being saved
\* (so a crash anywhere in SaveState leaves the previous record).
C8_SaveIsAtomic ==
    /\ [](fs[statePath] # Partial)
    /\ [][fs'[statePath] # fs[statePath]
             => (pc = "save_rename" /\ IsState(mem) /\ fs'[statePath] = mem)]_vars

C8_Witness ==
    /\ pc = "idle"
    /\ last.how = "crash"
    /\ fs[TmpPath(statePath)] = Partial
    /\ IsState(fs[statePath])
    /\ fs[statePath] = last.disk1

\* C9: after a crash between taking a batch and the end of its SaveState the
\* checkpoint file is the one the batch started from, with no track of the
\* batch marked processed, and the next invocation (same flags, unchanged
\* source) takes the same batch again.
C9_CrashLosesOnlyTheBatch ==
    /\ (pc = "idle" /\ last.how = "crash" /\ last.stage = "batch")
          => BatchNotPersisted
    /\ RetryOf("crash") => BatchRetried

C9_Witness ==
    /\ pc = "match"
    /\ RetryOf("crash")
    /\ tracksToProcess = last.batch
    /\ mem.processedTracks > 0

\* C10 as stated: after a CreatePlaylist or AddItems failure the checkpoint
\* file is what it was when the invocation started.
C10_RecordUnchangedByInvocation ==
    (pc = "idle" /\ last.how = "target") => fs[statePath] = last.disk0

\* C10 amended: after a CreatePlaylist or AddItems failure the checkpoint
\* file is the one the load step of that invocation left (loaded, created or
\* migrated), with no result and no processed id of the batch, and the next
\* invocation (same flags, unchanged source) takes the whole batch again.
C10_TargetErrorLosesOnlyTheBatch ==
    /\ (pc = "idle" /\ last.how = "target") => BatchNotPersisted
    /\ RetryOf("target") => BatchRetried

C10_Witness ==
    /\ pc = "match"
    /\ RetryOf("target")
    /\ tracksToProcess = last.batch
    /\ yt.playlists = 1

\* C11: when a sync on a Complete state finds a new track, the state after
\* the sync update is not Complete, and its total and snapshot are those of
\* the current source playlist, whatever was removed upstream.
C11_SyncReopensTheState ==
    [][(pc = "check" /\ mem.isComplete /\ pc' = "batch")
          => (/\ ~mem'.isComplete
              /\ mem'.totalTracks = Len(upstream)
              /\ mem'.tracks = upstream)]_vars

\* new tracks (ids not processed, each appended once) were appended to the
\* snapshot of a Complete record, and nothing else was edited
AppendedOnly == appended.ok /\ appended.new # <<>>

\* the number of results merged since the tracks were appended
MergedSince(s) == Len(s.matchResults) - appended.base

\* C12: after m >= 1 new tracks were appended to the source of a Complete
\* record, the results merged from then on are the new tracks, each once and
\* in order (so no processed track is matched again), every batch is the next
\* maxTracks of them, and the state is Complete when all m are merged.
C12_SyncProcessesOnlyTheNew ==
    AppendedOnly =>
        /\ \A s \in {mem, fs[statePath]} : IsState(s) =>
              /\ MergedSince(s) \in 0..Len(appended.new)
              /\ [i \in 1..MergedSince(s) |-> s.matchResults[appended.base + i].id]
                    = SubSeq(appended.new, 1, MergedSince(s))
              /\ MergedSince(s) = Len(appended.new) => s.isComplete
        /\ pc = "batch" =>
              GetNextBatch(mem, maxTracks)
                 = SubSeq(appended.new, MergedSince(mem) + 1,
                          Min(MergedSince(mem) + maxTracks, Len(appended.new)))
        /\ pc = "match" =>
              Range(tracksToProcess) \cap ResultIds(fs[statePath].matchResults) = {}

C12_Witness ==
    /\ pc = "idle"
    /\ AppendedOnly
    /\ syncMode
    /\ fs[statePath].tracks = upstream
    /\ MergedSince(fs[statePath]) = Len(appended.new)
    /\ fs[statePath].isComplete

IsDetect(op) == op[1] \in {"detect", "detect again"}

\* the processed ids of a state: its processed-id set or, for a record
\* written before the set existed, the ids of its MatchResults
ProcessedIds(s) ==
    IF s.idsNil THEN ResultIds(s.matchResults) ELSE s.processedTrackIDs

\* C13 as stated: DetectNewTracks returns the tracks of the current snapshot
\* whose id is not in the processed-id set, in order, and changes neither the
\* processed count, MatchResults, total, Complete flag nor the members of the
\* processed-id set.
C13_DetectChangesNothing ==
    [][IsDetect(lastOp') =>
          /\ apiRet' = FirstUnprocessed(lastOp'[2], mem.processedTrackIDs,
                                        Len(lastOp'[2]))
          /\ mem'.processedTracks = mem.processedTracks
          /\ mem'.matchResults = mem.matchResults
          /\ mem'.totalTracks = mem.totalTracks
          /\ mem'.isComplete = mem.isComplete
          /\ mem'.processedTrackIDs = mem.processedTrackIDs]_vars

\* C13 amended: on a state that has no processed-id set DetectNewTracks
\* first builds it from MatchResults, as Migrate does; it returns the tracks
\* of the current snapshot whose id is not in the (built) set, in order, and
\* changes nothing else of the state.
C13_DetectBuildsMissingSet ==
    [][IsDetect(lastOp') =>
          /\ apiRet' = FirstUnprocessed(lastOp'[2], ProcessedIds(mem),
                                        Len(lastOp'[2]))
          /\ mem' = [mem EXCEPT !.idsNil = FALSE,
                                !.processedTrackIDs = ProcessedIds(mem)]]_vars

C13_Witness ==
    /\ IsDetect(lastOp)
    /\ apiRet # <<>>
    /\ Len(apiRet) < Len(lastOp[2])
    /\ Len(mem.matchResults) > 0
    /\ ~mem.isComplete

\* C14: for a state that has processed every track of a snapshot, two
\* DetectNewTracks calls in a row with that snapshot both return no track.
C14_DetectTwiceFindsNothing ==
    (IsDetect(lastOp) /\ Range(lastOp[2]) \subseteq mem.processedTrackIDs)
        => /\ apiRet = <<>>
           /\ DetectNewTracks(mem, lastOp[2]) = <<>>
           /\ DetectNewTracksState(mem) = mem

C14_Witness ==
    /\ lastOp[1] = "detect again"
    /\ lastOp[2] # <<>>
    /\ Range(lastOp[2]) \subseteq mem.processedTrackIDs
    /\ apiRet = <<>>

\* C15: LoadState returns no state and no error when there is no record, and
\* an error when the record cannot be parsed or has another schema version;
\* an invocation that finds such a record ends at the load step, with no
\* track matched, and no file or target playlist is ever written.
C15_MalformedRecordAborts ==
    /\ [](LoadState(NoFile, TRUE) = [state |-> NoState, err |-> FALSE])
    /\ [](fs[statePath] \in Malformed =>
             /\ LoadState(fs[statePath], TRUE).err
             /\ pc \in {"idle", "init", "auth_failed", "load"}
             /\ mem = NoState /\ tracksToProcess = <<>> /\ newResults = <<>>)
    /\ [][fs[statePath] \in Malformed => (fs' = fs /\ yt' = yt)]_vars
    /\ [][(pc = "load" /\ fs[statePath] \in Malformed /\ pc' # pc)
             => pc' = "idle"]_vars

C15_Witness ==
    /\ pc = "idle"
    /\ runs = MaxRuns
    /\ fs[statePath] = OtherVersion
    /\ fs[TmpPath(statePath)] = NoFile
    /\ yt.playlists = 0

\* C16: Migrate applied to a record without a processed-id set gives it the
\* set of the track ids of its MatchResults and changes nothing else; applied
\* to a state that has the set, and so when applied a second time, it changes
\* nothing.
C16_MigrateIdempotent ==
    /\ [][lastOp'[1] \in {"migrate", "migrate again"} =>
             /\ ~mem'.idsNil
             /\ mem.idsNil =>
                   mem' = [mem EXCEPT !.idsNil = FALSE,
                              !.processedTrackIDs =
                                  {mem.matchResults[i].id : i \in 1..Len(mem.matchResults)}]
             /\ ~mem.idsNil => mem' = mem]_vars
    /\ [][lastOp'[1] = "migrate again" => mem' = mem]_vars
    /\ [](IsState(mem) => Migrate(Migrate(mem)) = Migrate(mem))

C16_Witness ==
    /\ lastOp[1] = "migrate again"
    /\ ~mem.idsNil
    /\ mem.processedTrackIDs # {}
    /\ mem.processedTrackIDs = ResultIds(mem.matchResults)

\* C17: when authentication with either catalog fails, no checkpoint has been
\* loaded, created or saved by the invocation, no track has been searched, no
\* target playlist created or added to, and the invocation can only end.
C17_AuthFailureTouchesNothing ==
    /\ [](pc = "auth_failed" =>
             /\ mem = NoState
             /\ fs[statePath] = diskAtStart
             /\ tracksToProcess = <<>> /\ newResults = <<>> /\ addIdx = 0)
    /\ [][(pc = "init" \/ pc = "auth_failed") =>
             (fs' = fs /\ yt' = yt /\ newResults' = <<>> /\ mem' = NoState)]_vars
    /\ [][(pc = "auth_failed" /\ pc' # pc) => pc' = "idle"]_vars

C17_Witness ==
    /\ pc = "auth_failed"
    /\ runs = 2
    /\ IsState(fs[statePath])
    /\ fs[statePath].processedTracks = 1
    /\ ~fs[statePath].isComplete
    /\ yt.playlists = 1

\* C18: matchTracks returns one MatchResult per track of the batch, in the
\* order of the batch; where SearchTrack returned an error the result is
\* unmatched and carries the error, and the tracks after it are matched all
\* the same.
C18_OneResultPerTrack ==
    lastOp[1] = "batch" =>
        /\ Len(newResults) = Len(tracksToProcess)
        /\ \A i \in 1..Len(tracksToProcess) :
              /\ i <= Len(newResults)
              /\ newResults[i].id = tracksToProcess[i]
              /\ lastOp[2][i].err =>
                    /\ ~newResults[i].matched
                    /\ newResults[i].error
                    /\ newResults[i].candidate = NoMatch
              /\ ~lastOp[2][i].err =>
                    /\ ~newResults[i].error
                    /\ newResults[i].matched <=> lastOp[2][i].match # NoMatch

C18_Witness ==
    /\ lastOp[1] = "batch"
    /\ Len(tracksToProcess) = 2
    /\ lastOp[2][1].err
    /\ Len(newResults) = 2
    /\ newResults[1].error
    /\ newResults[2].matched

Max(S) == CHOOSE x \in S : \A y \in S : y <= x

\* the scores of the items of a response
ScoresOf(response) ==
    {calculateSimilarity(response.items[j]) : j \in 1..Len(response.items)}

\* the strategies SearchTrack gets to: all up to the first whose response
\* has an item of a good score
Tried(responses) ==
    {i \in 1..Len(responses) :
        \A h \in 1..(i - 1) :
            \A x \in ScoresOf(responses[h]) : x < GoodMatch * MaxStr}

BestScoreTried(responses) ==
    Max({0} \cup UNION {ScoresOf(responses[i]) : i \in Tried(responses)})

\* C19: every MatchResult is either matched with a candidate or unmatched
\* without one; SearchTrack returns a candidate exactly when the best score
\* over the strategies it tried is at least the minimum threshold, with that
\* score, and below the threshold it returns no candidate and no error.
C19_MatchedIffAboveThreshold ==
    /\ lastOp[1] = "batch" =>
          \A i \in 1..Len(newResults) :
             \/ newResults[i].matched /\ newResults[i].candidate # NoMatch
             \/ ~newResults[i].matched /\ newResults[i].candidate = NoMatch
    /\ lastOp[1] = "search" =>
          LET best == BestScoreTried(lastOp[2])
              ret == apiRet[1]
              result == MatchResultOf(1, ret)
          IN /\ result.matched <=> best >= MinThreshold * MaxStr
             /\ result.matched => result.score = best
             /\ best < MinThreshold * MaxStr =>
                   (~result.matched /\ result.candidate = NoMatch /\ ~result.error)

C19_Witness ==
    /\ lastOp[1] = "search"
    /\ lastOp[2][1].items # <<>>
    /\ apiRet[1].match[1] = 2
    /\ apiRet[1].score = MinThreshold * MaxStr

\* C20: the score of calculateSimilarity, and that of CalculateMatchScore, is
\* between 0 and 1 for every pair, also when the cover/live/remix penalty
\* meets a title and artist similarity of 0.
C20_ScoresInUnitInterval ==
    lastOp[1] \in {"score", "composite"} => (0 <= apiRet[1] /\ apiRet[1] <= One)

\* C21: normalising is idempotent: normalising a normalised string gives the
\* same string again
C21_NormalizeIdempotent ==
    lastOp[1] = "normalize" => normalizeString(apiRet[1]) = apiRet[1]

\* a string that the normaliser changed without emptying it
C21_Witness ==
    /\ lastOp[1] = "normalize"
    /\ apiRet[1] # <<>>
    /\ apiRet[1] # lastOp[2]
    /\ \E k \in 1..Len(lastOp[2]) : HasAt(lastOp[2], k, <<"m", "i", "x">>)

\* the positions of s that lie between an opening and the next closing mark
Enclosed(s, open, close) ==
    {k \in 1..Len(s) :
        \E i \in 1..(k - 1) : \E j \in (k + 1)..Len(s) :
            /\ s[i] = open /\ s[j] = close
            /\ \A m \in (i + 1)..(j - 1) : s[m] # close}

\* the words of s that stand inside (...) or [...], and those that stand
\* outside
WordsInside(s) ==
    LET in == Enclosed(s, "(", ")") \cup Enclosed(s, "[", "]")
    IN Range(Fields(removeDiacritics(ToLower(
           [k \in 1..Len(s) |-> IF k \in in THEN s[k] ELSE " "]))))

WordsOutside(s) ==
    Range(Fields(removeDiacritics(ToLower(
        ReplaceEnclosed(ReplaceEnclosed(s, "(", ")"), "[", "]")))))

\* C22: a word that occurs in the input only inside parentheses or square
\* brackets does not occur in the normalised string
C22_EnclosedWordsRemoved ==
    lastOp[1] = "normalize" =>
        \A w \in WordsInside(lastOp[2]) \ WordsOutside(lastOp[2]) :
            w \notin Range(Fields(apiRet[1]))

\* the best score among the items of the strategies before the i-th
BestScoreBefore(responses, i) ==
    Max({0} \cup UNION {ScoresOf(responses[h]) : h \in 1..(i - 1)})

\* C23: a failing search of one strategy never aborts the track: SearchTrack
\* returns no error, the next strategy is still searched, a candidate that an
\* earlier strategy found above the minimum threshold is kept, and when every
\* search fails the track is unmatched.
C23_SearchErrorNeverAborts ==
    lastOp[1] = "search" =>
        LET responses == lastOp[2]
            ret == apiRet[1]
            calls == Range(apiRet[2])
            failed == {i \in 1..Len(responses) : responses[i].err}
        IN /\ ~ret.err
           /\ \A i \in failed \cap calls :
                 /\ i < Len(responses) => (i + 1) \in calls
                 /\ BestScoreBefore(responses, i) >= MinThreshold * MaxStr =>
                       /\ ret.match # NoMatch
                       /\ ret.score >= BestScoreBefore(responses, i)
           /\ failed = 1..Len(responses) =>
                 (ret.match = NoMatch /\ ~MatchResultOf(1, ret).matched)

\* the first search failed and the second strategy found the match
C23_Witness ==
    /\ lastOp[1] = "search"
    /\ lastOp[2][1].err
    /\ apiRet[2] = <<1, 2>>
    /\ apiRet[1].match[1] = 2
    /\ ~apiRet[1].err

\* C24: the strategies of a track are searched in list order, each at most
\* once; no search is issued once a strategy has brought an item of a good
\* score, and all are searched when none has.
C24_SearchesInOrderUntilGood ==
    lastOp[1] = "search" =>
        LET responses == lastOp[2]
            calls == apiRet[2]
            good == {i \in 1..Len(responses) :
                        \E x \in ScoresOf(responses[i]) : x >= GoodMatch * MaxStr}
            n == IF good = {} THEN Len(responses)
                 ELSE CHOOSE i \in good : \A j \in good : i <= j
        IN /\ calls = [k \in 1..n |-> k]
           /\ Len(calls) <= NumStrategies

\* the first strategy brought a good match and the second was not searched,
\* although it would have brought items
C24_Witness ==
    /\ lastOp[1] = "search"
    /\ apiRet[2] = <<1>>
    /\ apiRet[1].score >= GoodMatch * MaxStr
    /\ lastOp[2][2].items # <<>>

\* the candidates SearchTrack saw: the items of the strategies it searched
CandidatesSeen(responses, calls) ==
    UNION {{<<i, k>> : k \in 1..Len(responses[i].items)} : i \in Range(calls)}

ScoreOfCandidate(responses, c) ==
    calculateSimilarity(responses[c[1]].items[c[2]])

\* C25: the candidate SearchTrack selects has the highest score of all the
\* candidates of the strategies searched, and is the first of that score in
\* the order of the strategies and of the items within a response.
C25_FirstBestCandidateWins ==
    (lastOp[1] = "search" /\ apiRet[1].match # NoMatch) =>
        LET responses == lastOp[2]
            m == apiRet[1].match
            seen == CandidatesSeen(responses, apiRet[2])
        IN /\ m \in seen
           /\ apiRet[1].score = ScoreOfCandidate(responses, m)
           /\ \A c \in seen :
                 /\ ScoreOfCandidate(responses, c) <= apiRet[1].score
                 /\ ScoreOfCandidate(responses, c) = apiRet[1].score =>
                       (c[1] > m[1] \/ (c[1] = m[1] /\ c[2] >= m[2]))

\* two candidates of the best score in one response and one more in the next
\* response: the first is selected
C25_Witness ==
    /\ lastOp[1] = "search"
    /\ apiRet[1].match = <<1, 1>>
    /\ apiRet[2] = <<1, 2>>
    /\ Len(lastOp[2][1].items) = 2
    /\ ScoreOfCandidate(lastOp[2], <<1, 2>>) = apiRet[1].score
    /\ lastOp[2][2].items # <<>>
    /\ ScoreOfCandidate(lastOp[2], <<2, 1>>) = apiRet[1].score

\* how often the video of track t was added to a target playlist
TimesAdded(t) == Cardinality({i \in 1..Len(yt.items) : yt.items[i][2] = t})

\* C26: over any sequence of invocations for one source playlist (no track
\* listed twice, no upstream edit), also after invocations that a target
\* write error or a crash ended before the save, the video matched to a
\* source track is added to the target playlist at most once.
C26_EachVideoAddedOnce ==
    (edits = 0 /\ Distinct(upstream)) => \A t \in Ids : TimesAdded(t) <= 1

\* C27: at most one target playlist is ever created, also when an invocation
\* that created one ended in a target write error or a crash before the
\* save; and a playlist id in the checkpoint file never changes once set.
C27_OneTargetPlaylist ==
    /\ [](yt.playlists <= 1)
    /\ [][(IsState(fs[statePath]) /\ fs[statePath].youTubePlaylistID # 0)
             => (/\ IsState(fs'[statePath])
                 /\ fs'[statePath].youTubePlaylistID
                       = fs[statePath].youTubePlaylistID)]_vars

\* C28: a Complete record in the checkpoint file has no unprocessed track in
\* its snapshot (its next batch is empty), after any sequence of batches and
\* syncs, also when the synced playlist dropped processed tracks and brought
\* new ones.
C28_CompleteRecordHasNoBatch ==
    (IsState(fs[statePath]) /\ fs[statePath].isComplete) =>
        /\ GetNextBatch(fs[statePath], 1) = <<>>
        /\ ~fs[statePath].idsNil =>
              Range(fs[statePath].tracks) \subseteq fs[statePath].processedTrackIDs

\* C29: in every state, in memory or in the checkpoint file, the processed
\* count (the length of MatchResults) is the number of ids in the processed
\* set, so GetProcessedTrackCount and ProcessedTracks agree, also for a
\* source playlist that lists a track twice.
C29_ProcessedCountIsIdCount ==
    \A s \in {mem, fs[statePath]} :
        IsState(s) =>
            /\ GetProcessedTrackCount(s) = s.processedTracks
            /\ ~s.idsNil => Cardinality(s.processedTrackIDs) = Len(s.matchResults)

\* a Complete state with nothing new to process, at the check of step 4
NothingNew ==
    /\ pc = "check"
    /\ mem.isComplete
    /\ ~syncMode \/ DetectNewTracks(mem, upstream) = <<>>

\* the record the load step leaves of the one the invocation found
LeftByLoad ==
    IF NeedsMigration(diskAtStart)
    THEN [Migrate(diskAtStart) EXCEPT !.lastUpdatedAt = runs]
    ELSE diskAtStart

\* C30 as stated: an invocation on a Complete state with nothing new to
\* process searches nothing, writes nothing to the target catalog and leaves
\* the checkpoint file as it found it.
C30_NothingNewChangesNothing ==
    [][(NothingNew /\ pc' = "idle") =>
          (/\ fs'[statePath] = diskAtStart
           /\ yt' = yt
           /\ newResults = <<>>)]_vars

\* C30 amended: such an invocation searches nothing and writes nothing to the
\* target catalog, and the checkpoint file it leaves is the one it found or,
\* for a record written before the processed-id set existed, that record
\* migrated and saved by the load step: same snapshot, results, counters,
\* Complete flag and sessions.
C30_NothingNewOnlyMigrates ==
    /\ [][(NothingNew /\ pc' = "idle") =>
             (/\ fs' = fs
              /\ fs[statePath] = LeftByLoad
              /\ yt' = yt
              /\ newResults = <<>> /\ tracksToProcess = <<>>)]_vars
    /\ [][(Stage(pc) = "pre") => yt' = yt]_vars
    /\ [](NothingNew =>
             /\ LeftByLoad.matchResults = diskAtStart.matchResults
             /\ LeftByLoad.processedTracks = diskAtStart.processedTracks
             /\ LeftByLoad.sessions = diskAtStart.sessions
             /\ LeftByLoad.tracks = diskAtStart.tracks
             /\ LeftByLoad.isComplete)

\* a sync of a migrated Complete record finds the source playlist unchanged
C30_Witness ==
    /\ NothingNew
    /\ syncMode
    /\ upstream # <<>>
    /\ NeedsMigration(diskAtStart)
    /\ fs[statePath] # diskAtStart

=============================================================================
